---------------------------- MODULE Spec2Model ----------------------------
(***************************************************************************)
(* Hidden payment channels: the HiddenPaymentChannels vault contract       *)
(* (contracts/HiddenPaymentChannels.sol) and the service routes that issue, *)
(* validate and claim payment tickets (service/src/routes.ts), with the    *)
(* settlement bridge (service/src/actions.ts, cookbook/claim-ticket.step). *)
(*                                                                         *)
(* Amounts are WETH base units scaled so that TICKET_COST is 300.  uint256  *)
(* and bigint values are naturals: no reachable value comes near 2^256 and  *)
(* Solidity 0.8 reverts on overflow.  keccak256 and ECDSA are symbolic:     *)
(* a hash is the tagged tuple of what was hashed (collision free), a        *)
(* signature names its key and the digest it was made over.                *)
(***************************************************************************)
EXTENDS Integers, Sequences, FiniteSets, Bags, TLC

\* ------------------------------------------------------------------ bounds

\* Tickets the issuer generates in one run.
MaxGenerate == 3
\* top_up stops once totalAmountFunded reaches this many ticket costs.
MaxFundedUnits == 3
\* WETH sent to the vault by plain ERC20 transfer, in ticket costs.
MaxDonatedUnits == 1

\* --------------------------------------------------------------- constants

TICKET_COST == 300
SHIELD_FEE_BASIS_POINTS == 25

RAILGUN_ADAPT_ADDRESS == "0xRailgunAdapt"
hpcContractAddress == "0xHPC"
hostRailgunAddress == "0zkHost"
signingWalletAddress == "0xTicketSigner"

\* Parties and values outside the deployment, for tampered requests.
MalloryAddress == "0xMallory"
MalloryRailgunAddress == "0zkMallory"
OtherVaultAddress == "0xOtherVault"
UnrelatedAddress == "0xUnrelated"

VARIABLES
    \* vault (HiddenPaymentChannels.sol)
    toRailgunAddress, ticketSignerAddress,
    totalAmountFunded, totalAmountWithdrawn, lastTicketNonce,
    \* WETH: the vault's balance, and what each caller was paid by the vault
    wethBalance, wethReceived,
    \* service (routes.ts, engine.ts)
    hostNonce, userNonce, inflight, engineInitialized,
    \* history
    issued, maxAcceptedNonce, lastAcceptedIdx, requestsSinceSettle,
    serviceClaimedNonce, restartedAt, last

vaultVars == <<toRailgunAddress, ticketSignerAddress, totalAmountFunded,
               totalAmountWithdrawn, lastTicketNonce, wethBalance,
               wethReceived>>
serviceVars == <<hostNonce, userNonce, inflight, engineInitialized>>
historyVars == <<issued, maxAcceptedNonce, lastAcceptedIdx, requestsSinceSettle,
                 serviceClaimedNonce, restartedAt, last>>
vars == <<vaultVars, serviceVars, historyVars>>

\* ------------------------------------------------------------ cryptography

toUtf8Bytes(s) == <<"utf8", s>>
toUtf8String(b) == b[2]
keccak256(bytes) == <<"keccak256", bytes>>

\* solidityPackedKeccak256(["bytes32","uint256","uint256","address"], [...]):
\* the four fields have fixed widths, so the packing is injective.
solidityPackedKeccak256(payeeHash, amount, nonce, vault) ==
    <<"keccak256", payeeHash, amount, nonce, vault>>

\* signingKey.sign(digest) packed as r || s || v.
sign(walletAddress, digest) == [signer |-> walletAddress, digest |-> digest]

\* ECDSA recovery: the signing key's address for the signed digest, an
\* unrelated address for any other digest.
recoverAddress(digest, signature) ==
    IF signature.digest = digest THEN signature.signer ELSE UnrelatedAddress


\* ----------------------------------------------------------------- tickets

\* The ticket hash as routes.ts computes it, in generate and in verifyTicket.
ticketMessageHash(ticket) ==
    solidityPackedKeccak256(keccak256(toUtf8Bytes(ticket.toRailgunAddress)),
                            ticket.amount, ticket.nonce,
                            ticket.hiddenPaymentChannelsContractAddress)

\* An absent request body ticket (undefined).
NoTicket ==
    [toRailgunAddress |-> "undefined", nonce |-> 0, amount |-> 0,
     hiddenPaymentChannelsContractAddress |-> "undefined",
     signature |-> sign("undefined",
                        solidityPackedKeccak256(keccak256(toUtf8Bytes("undefined")),
                                                0, 0, "undefined"))]

\* POST /ticket/generate: the ticket built from the two counters.
unclaimedTickets(uNonce, hNonce) == uNonce - hNonce

\* newNonce without the step off zero.
newNonce_unbumped(uNonce, hNonce) ==
    IF unclaimedTickets(uNonce, hNonce) = 0 THEN uNonce ELSE uNonce + 1

newNonce(uNonce, hNonce) ==
    LET n == IF unclaimedTickets(uNonce, hNonce) = 0 THEN uNonce ELSE uNonce + 1
    IN  IF n = 0 THEN n + 1 ELSE n

\* generateTicket charging one TICKET_COST whatever is unclaimed.
generateTicket_flat(uNonce, hNonce) ==
    LET ticket == [toRailgunAddress |-> hostRailgunAddress,
                   nonce |-> newNonce(uNonce, hNonce),
                   amount |-> TICKET_COST,
                   hiddenPaymentChannelsContractAddress |-> hpcContractAddress]
    IN  [toRailgunAddress |-> ticket.toRailgunAddress,
         nonce |-> ticket.nonce,
         amount |-> ticket.amount,
         hiddenPaymentChannelsContractAddress |->
             ticket.hiddenPaymentChannelsContractAddress,
         signature |-> sign(signingWalletAddress, ticketMessageHash(ticket))]

\* generateTicket signing the hash with amount and nonce in the wrong order.
generateTicket_swapped_hash(uNonce, hNonce) ==
    LET ticket == [toRailgunAddress |-> hostRailgunAddress,
                   nonce |-> newNonce(uNonce, hNonce),
                   amount |-> TICKET_COST
                              + TICKET_COST * unclaimedTickets(uNonce, hNonce),
                   hiddenPaymentChannelsContractAddress |-> hpcContractAddress]
    IN  [toRailgunAddress |-> ticket.toRailgunAddress,
         nonce |-> ticket.nonce,
         amount |-> ticket.amount,
         hiddenPaymentChannelsContractAddress |->
             ticket.hiddenPaymentChannelsContractAddress,
         signature |->
             sign(signingWalletAddress,
                  solidityPackedKeccak256(
                      keccak256(toUtf8Bytes(ticket.toRailgunAddress)),
                      ticket.nonce, ticket.amount,
                      ticket.hiddenPaymentChannelsContractAddress))]

generateTicket(uNonce, hNonce) ==
    LET ticket == [toRailgunAddress |-> hostRailgunAddress,
                   nonce |-> newNonce(uNonce, hNonce),
                   amount |-> TICKET_COST
                              + TICKET_COST * unclaimedTickets(uNonce, hNonce),
                   hiddenPaymentChannelsContractAddress |-> hpcContractAddress]
    IN  [toRailgunAddress |-> ticket.toRailgunAddress,
         nonce |-> ticket.nonce,
         amount |-> ticket.amount,
         hiddenPaymentChannelsContractAddress |->
             ticket.hiddenPaymentChannelsContractAddress,
         signature |-> sign(signingWalletAddress, ticketMessageHash(ticket))]

\* verifyTicket with the signature check moved before the field checks.
verifyTicket_signature_first(ticket, hNonce) ==
    IF ticket = NoTicket
        THEN [valid |-> FALSE, error |-> "ticket is required"]
    ELSE IF recoverAddress(ticketMessageHash(ticket), ticket.signature)
            # signingWalletAddress
        THEN [valid |-> FALSE,
              error |-> "ticket is not signed by the correct wallet"]
    ELSE IF ticket.nonce < hNonce
        THEN [valid |-> FALSE, error |-> "ticket is outdated"]
    ELSE IF ticket.toRailgunAddress # hostRailgunAddress
        THEN [valid |-> FALSE, error |-> "ticket is not for the host"]
    ELSE IF ticket.hiddenPaymentChannelsContractAddress # hpcContractAddress
        THEN [valid |-> FALSE,
              error |-> "ticket is not for the hidden payments contract"]
    ELSE IF ticket.amount < TICKET_COST
        THEN [valid |-> FALSE, error |-> "ticket is not for the correct amount"]
    ELSE [valid |-> TRUE, error |-> "none"]

\* verifyTicket demanding exactly TICKET_COST.
verifyTicket_exact_amount(ticket, hNonce) ==
    IF ticket = NoTicket
        THEN [valid |-> FALSE, error |-> "ticket is required"]
    ELSE IF ticket.nonce < hNonce
        THEN [valid |-> FALSE, error |-> "ticket is outdated"]
    ELSE IF ticket.toRailgunAddress # hostRailgunAddress
        THEN [valid |-> FALSE, error |-> "ticket is not for the host"]
    ELSE IF ticket.hiddenPaymentChannelsContractAddress # hpcContractAddress
        THEN [valid |-> FALSE,
              error |-> "ticket is not for the hidden payments contract"]
    ELSE IF ticket.amount # TICKET_COST
        THEN [valid |-> FALSE, error |-> "ticket is not for the correct amount"]
    ELSE IF recoverAddress(ticketMessageHash(ticket), ticket.signature)
            # signingWalletAddress
        THEN [valid |-> FALSE,
              error |-> "ticket is not signed by the correct wallet"]
    ELSE [valid |-> TRUE, error |-> "none"]

\* verifyTicket: the first failing check, or valid.
verifyTicket(ticket, hNonce) ==
    IF ticket = NoTicket
        THEN [valid |-> FALSE, error |-> "ticket is required"]
    ELSE IF ticket.nonce < hNonce
        THEN [valid |-> FALSE, error |-> "ticket is outdated"]
    ELSE IF ticket.toRailgunAddress # hostRailgunAddress
        THEN [valid |-> FALSE, error |-> "ticket is not for the host"]
    ELSE IF ticket.hiddenPaymentChannelsContractAddress # hpcContractAddress
        THEN [valid |-> FALSE,
              error |-> "ticket is not for the hidden payments contract"]
    ELSE IF ticket.amount < TICKET_COST
        THEN [valid |-> FALSE, error |-> "ticket is not for the correct amount"]
    ELSE IF recoverAddress(ticketMessageHash(ticket), ticket.signature)
            # signingWalletAddress
        THEN [valid |-> FALSE,
              error |-> "ticket is not signed by the correct wallet"]
    ELSE [valid |-> TRUE, error |-> "none"]

\* -------------------------------------------------------------------- wire

\* Tickets travel as JSON.  BigInt.prototype.toJSON is String(this): the
\* base-10 digits, most significant first.  JSON.parse leaves them strings,
\* and the handlers turn them into bigints again where they use them:
\* BigInt(value), a comparison with a bigint, a uint256 argument.
Digits == <<"0", "1", "2", "3", "4", "5", "6", "7", "8", "9">>

RECURSIVE toJSON(_)
RECURSIVE BigInt(_)

\* toJSON writing the last digit only.
toJSON_last_digit(n) == <<Digits[(n % 10) + 1]>>

toJSON(n) ==
    IF n < 10 THEN <<Digits[n + 1]>>
    ELSE Append(toJSON(n \div 10), Digits[(n % 10) + 1])

BigInt(value) ==
    IF Len(value) = 0 THEN 0
    ELSE 10 * BigInt(SubSeq(value, 1, Len(value) - 1))
         + ((CHOOSE d \in DOMAIN Digits : Digits[d] = value[Len(value)]) - 1)

\* res.json({ticket}): the ticket as the client receives it and sends it
\* back in a request body.
resJson(claimableTicket) ==
    [claimableTicket EXCEPT !.nonce = toJSON(@), !.amount = toJSON(@)]

\* The ticket of a request body as the handlers' arithmetic sees it.
coerced(body) == [body EXCEPT !.nonce = BigInt(@), !.amount = BigInt(@)]

\* verifyTicket applied to the ticket of a request body.
verifyTicketBody(body, hNonce) == verifyTicket(coerced(body), hNonce)

\* ------------------------------------------------------------------- vault

\* verify_signature with amount and nonce packed in the wrong order.
verify_signature_swapped(amount, nonce, signature) ==
    recoverAddress(solidityPackedKeccak256(keccak256(toRailgunAddress),
                                           nonce, amount, hpcContractAddress),
                   signature) = ticketSignerAddress

\* verify_signature that leaves the amount out of what it compares.
verify_signature_any_amount(amount, nonce, signature) ==
    /\ signature.signer = ticketSignerAddress
    /\ signature.digest[2] = keccak256(toRailgunAddress)
    /\ signature.digest[4] = nonce
    /\ signature.digest[5] = hpcContractAddress

verify_signature(amount, nonce, signature) ==
    recoverAddress(solidityPackedKeccak256(keccak256(toRailgunAddress),
                                           amount, nonce, hpcContractAddress),
                   signature) = ticketSignerAddress

\* claim_ticket accepting a nonce equal to the last one.
claim_ticket_revert_replay(sender, amount, nonce, signature) ==
    IF ~verify_signature(amount, nonce, signature) THEN "invalid signature"
    ELSE IF sender # RAILGUN_ADAPT_ADDRESS
        THEN "only RAILGUN_ADAPT_ADDRESS can claim ticket"
    ELSE IF ~(amount <= wethBalance) THEN "insufficient balance"
    ELSE IF ~(nonce >= lastTicketNonce) THEN "invalid nonce"
    ELSE "ok"

\* claim_ticket without the msg.sender check.
claim_ticket_revert_any_sender(sender, amount, nonce, signature) ==
    IF ~verify_signature(amount, nonce, signature) THEN "invalid signature"
    ELSE IF ~(amount <= wethBalance) THEN "insufficient balance"
    ELSE IF ~(nonce > lastTicketNonce) THEN "invalid nonce"
    ELSE "ok"

\* claim_ticket without the balance check.
claim_ticket_revert_no_balance(sender, amount, nonce, signature) ==
    IF ~verify_signature(amount, nonce, signature) THEN "invalid signature"
    ELSE IF sender # RAILGUN_ADAPT_ADDRESS
        THEN "only RAILGUN_ADAPT_ADDRESS can claim ticket"
    ELSE IF ~(nonce > lastTicketNonce) THEN "invalid nonce"
    ELSE "ok"

\* claim_ticket with the nonce check before the balance check.
claim_ticket_revert_nonce_first(sender, amount, nonce, signature) ==
    IF ~verify_signature(amount, nonce, signature) THEN "invalid signature"
    ELSE IF sender # RAILGUN_ADAPT_ADDRESS
        THEN "only RAILGUN_ADAPT_ADDRESS can claim ticket"
    ELSE IF ~(nonce > lastTicketNonce) THEN "invalid nonce"
    ELSE IF ~(amount <= wethBalance) THEN "insufficient balance"
    ELSE "ok"

\* The require that reverts a claim_ticket call, or "ok" when none does.
\* WETH.transfer cannot fail once the balance check has passed.
claim_ticket_revert(sender, amount, nonce, signature) ==
    IF ~verify_signature(amount, nonce, signature) THEN "invalid signature"
    ELSE IF sender # RAILGUN_ADAPT_ADDRESS
        THEN "only RAILGUN_ADAPT_ADDRESS can claim ticket"
    ELSE IF ~(amount <= wethBalance) THEN "insufficient balance"
    ELSE IF ~(nonce > lastTicketNonce) THEN "invalid nonce"
    ELSE "ok"

\* ------------------------------------------------------------------ bridge

\* ClaimTicketStep shielding to the railgun address written in the ticket.
ClaimTicketStep_ticket_payee(ticket) ==
    LET amount == ticket.amount
        amountAfterShieldFee ==
            (amount * (10000 - SHIELD_FEE_BASIS_POINTS)) \div 10000
    IN  [crossContractCalls |->
             <<[amount |-> amount, nonce |-> ticket.nonce,
                signature |-> ticket.signature]>>,
         spentERC20Amounts |-> <<>>,
         outputERC20Amounts |->
             <<[recipient |-> ticket.toRailgunAddress,
                expectedBalance |-> amountAfterShieldFee,
                minBalance |-> amountAfterShieldFee]>>]

\* ClaimTicketStep.getStepOutput: one claim_ticket call and one output,
\* shielded to the railgun address read from the vault.
ClaimTicketStep(ticket) ==
    LET amount == ticket.amount
        amountAfterShieldFee ==
            (amount * (10000 - SHIELD_FEE_BASIS_POINTS)) \div 10000
    IN  [crossContractCalls |->
             <<[amount |-> amount, nonce |-> ticket.nonce,
                signature |-> ticket.signature]>>,
         spentERC20Amounts |-> <<>>,
         outputERC20Amounts |->
             <<[recipient |-> toUtf8String(toRailgunAddress),
                expectedBalance |-> amountAfterShieldFee,
                minBalance |-> amountAfterShieldFee]>>]


\* ---------------------------------------------------------------- requests

\* What a client or an observer can send: a ticket the issuer handed out,
\* the same ticket with one field altered and the signature kept, or the
\* ticket signed again with a key that is not the ticket signer's.
AlterAmount(a) == {a - 1, a + TICKET_COST}
AlterNonce(n) == {n + 1} \cup (IF n > 0 THEN {n - 1} ELSE {})

Tampered(t) ==
    {[t EXCEPT !.toRailgunAddress = MalloryRailgunAddress],
     [t EXCEPT !.hiddenPaymentChannelsContractAddress = OtherVaultAddress],
     [t EXCEPT !.signature = sign(MalloryAddress, ticketMessageHash(t))]}
    \cup {[t EXCEPT !.amount = a] : a \in AlterAmount(t.amount)}
    \cup {[t EXCEPT !.nonce = n] : n \in AlterNonce(t.nonce)}

IssuedTickets == {issued[i] : i \in DOMAIN issued}

ForgedTicket ==
    LET t == [toRailgunAddress |-> hostRailgunAddress, nonce |-> 1,
              amount |-> TICKET_COST,
              hiddenPaymentChannelsContractAddress |-> hpcContractAddress]
    IN  [toRailgunAddress |-> t.toRailgunAddress, nonce |-> t.nonce,
         amount |-> t.amount,
         hiddenPaymentChannelsContractAddress |->
             t.hiddenPaymentChannelsContractAddress,
         signature |-> sign(MalloryAddress, ticketMessageHash(t))]

\* What the issuer's own client sends: a ticket it was handed, or none.
ClientTickets == {NoTicket} \cup IssuedTickets

\* What anyone can send.
RequestTickets ==
    ClientTickets \cup {ForgedTicket}
    \cup UNION {Tampered(t) : t \in IssuedTickets}

\* The (amount, nonce, signature) triples of tickets: what a caller of
\* claim_ticket can pass.
ClaimArguments(tickets) ==
    {[amount |-> t.amount, nonce |-> t.nonce, signature |-> t.signature] :
        t \in tickets \ {NoTicket}}

Senders == {RAILGUN_ADAPT_ADDRESS, MalloryAddress}
ShieldRecipients == {hostRailgunAddress, MalloryRailgunAddress}

\* The index at which a ticket was first issued, 0 when it never was.
IssuedIndex(amount, nonce, signature) ==
    LET I == {i \in DOMAIN issued :
                 /\ issued[i].amount = amount
                 /\ issued[i].nonce = nonce
                 /\ issued[i].signature = signature}
    IN  IF I = {} THEN 0 ELSE CHOOSE i \in I : \A j \in I : i <= j

\* The claim requests the service can have in flight at once: two handler
\* instances, enough for one request to overtake another.  inflight is the
\* bag of requests suspended at their await, each with the state of its
\* settlement transaction.
Handlers == {"h1", "h2"}

InFlight(stage, ticket) == [stage |-> stage, ticket |-> ticket]

\* The bag with request r moved to another stage.
Moved(r, stage) ==
    (inflight (-) SetToBag({r})) (+) SetToBag({InFlight(stage, r.ticket)})

\* No outcome is waiting to be delivered.
Ready == last.op = "idle"

\* Whether the railgun engine has been started and not stopped.
isEngineInitialized == engineInitialized

\* The endpoints behind the requireEngineInitialized middleware.
Endpoints == {"available-funds", "generate", "validate", "claim"}

\* -------------------------------------------------------------------- init

\* The contract as constructed by the ignition module, and the service as
\* createRoutes leaves it with latestNonce read from the new contract.
Init ==
    /\ toRailgunAddress = toUtf8Bytes(hostRailgunAddress)
    /\ ticketSignerAddress = signingWalletAddress
    /\ totalAmountFunded = 0
    /\ totalAmountWithdrawn = 0
    /\ lastTicketNonce = 0
    /\ wethBalance = 0
    /\ wethReceived = [a \in Senders |-> 0]
    /\ hostNonce = 0
    /\ userNonce = 0
    /\ inflight = EmptyBag
    /\ engineInitialized = TRUE
    /\ issued = <<>>
    /\ maxAcceptedNonce = 0
    /\ lastAcceptedIdx = 0
    /\ requestsSinceSettle = 0
    /\ serviceClaimedNonce = 0
    /\ restartedAt = 0
    /\ last = [op |-> "idle"]

\* ------------------------------------------------------------ vault actions

TopUpAmounts == {TICKET_COST, 2 * TICKET_COST}

\* top_up that also counts the amount as withdrawn.
top_up_nets_withdrawn(caller, amount) ==
    /\ Ready
    /\ totalAmountFunded + amount <= MaxFundedUnits * TICKET_COST
    /\ wethBalance' = wethBalance + amount
    /\ totalAmountFunded' = totalAmountFunded + amount
    /\ totalAmountWithdrawn' = totalAmountWithdrawn + amount
    /\ last' = [op |-> "top_up", caller |-> caller, amount |-> amount]
    /\ UNCHANGED <<toRailgunAddress, ticketSignerAddress, lastTicketNonce,
                   wethReceived, serviceVars, issued, maxAcceptedNonce,
                   lastAcceptedIdx, requestsSinceSettle, serviceClaimedNonce,
                   restartedAt>>

\* top_up that counts the amount without pulling the tokens.
top_up_unpulled(caller, amount) ==
    /\ Ready
    /\ totalAmountFunded + amount <= MaxFundedUnits * TICKET_COST
    /\ totalAmountFunded' = totalAmountFunded + amount
    /\ last' = [op |-> "top_up", caller |-> caller, amount |-> amount]
    /\ UNCHANGED <<toRailgunAddress, ticketSignerAddress, totalAmountWithdrawn,
                   lastTicketNonce, wethBalance, wethReceived, serviceVars,
                   issued, maxAcceptedNonce, lastAcceptedIdx,
                   requestsSinceSettle, serviceClaimedNonce, restartedAt>>

\* top_up(amount) by a caller whose WETH transferFrom succeeds.
top_up(caller, amount) ==
    /\ Ready
    /\ totalAmountFunded + amount <= MaxFundedUnits * TICKET_COST
    /\ wethBalance' = wethBalance + amount
    /\ totalAmountFunded' = totalAmountFunded + amount
    /\ last' = [op |-> "top_up", caller |-> caller, amount |-> amount]
    /\ UNCHANGED <<toRailgunAddress, ticketSignerAddress, totalAmountWithdrawn,
                   lastTicketNonce, wethReceived, serviceVars, issued,
                   maxAcceptedNonce,
                   lastAcceptedIdx, requestsSinceSettle, serviceClaimedNonce,
                   restartedAt>>

\* WETH sent to the vault's address by a plain ERC20 transfer: the balance
\* claim_ticket reads grows, totalAmountFunded does not.
wethTransferToVault(amount) ==
    /\ Ready
    /\ wethBalance - (totalAmountFunded - totalAmountWithdrawn)
           < MaxDonatedUnits * TICKET_COST
    /\ wethBalance' = wethBalance + amount
    /\ last' = [op |-> "weth_transfer", amount |-> amount]
    /\ UNCHANGED <<toRailgunAddress, ticketSignerAddress, totalAmountFunded,
                   totalAmountWithdrawn, lastTicketNonce, wethReceived,
                   serviceVars, issued,
                   maxAcceptedNonce, lastAcceptedIdx, requestsSinceSettle,
                   serviceClaimedNonce, restartedAt>>

\* claim_ticket whose state writes come before its requires and are kept
\* when a require fails.
claim_ticket_writes_first(sender, recipient, amount, nonce, signature) ==
    LET revert == claim_ticket_revert(sender, amount, nonce, signature)
        idx == IssuedIndex(amount, nonce, signature)
    IN  /\ last' = [op |-> "claim_ticket", sender |-> sender,
                    recipient |-> IF revert = "ok" THEN recipient ELSE "none",
                    amount |-> amount, nonce |-> nonce,
                    signature |-> signature, result |-> revert,
                    balanceBefore |-> wethBalance,
                    nonceBefore |-> lastTicketNonce,
                    covered |-> idx - lastAcceptedIdx]
        /\ totalAmountWithdrawn' = totalAmountWithdrawn + amount
        /\ lastTicketNonce' = nonce
        /\ IF revert = "ok"
              THEN /\ wethBalance' = wethBalance - amount
                   /\ wethReceived' =
                          [wethReceived EXCEPT ![sender] = @ + amount]
                   /\ maxAcceptedNonce' = IF nonce > maxAcceptedNonce THEN nonce
                                          ELSE maxAcceptedNonce
                   /\ lastAcceptedIdx' = idx
              ELSE UNCHANGED <<wethBalance, wethReceived, maxAcceptedNonce,
                               lastAcceptedIdx>>
        /\ UNCHANGED <<toRailgunAddress, ticketSignerAddress, totalAmountFunded>>

\* claim_ticket that pays the caller the amount less the shield fee.
claim_ticket_pays_net(sender, recipient, amount, nonce, signature) ==
    LET revert == claim_ticket_revert(sender, amount, nonce, signature)
        idx == IssuedIndex(amount, nonce, signature)
        net == (amount * (10000 - SHIELD_FEE_BASIS_POINTS)) \div 10000
    IN  /\ last' = [op |-> "claim_ticket", sender |-> sender,
                    recipient |-> IF revert = "ok" THEN recipient ELSE "none",
                    amount |-> amount, nonce |-> nonce,
                    signature |-> signature, result |-> revert,
                    balanceBefore |-> wethBalance,
                    nonceBefore |-> lastTicketNonce,
                    covered |-> idx - lastAcceptedIdx]
        /\ IF revert = "ok"
              THEN /\ wethBalance' = wethBalance - net
                   /\ wethReceived' =
                          [wethReceived EXCEPT ![sender] = @ + net]
                   /\ totalAmountWithdrawn' = totalAmountWithdrawn + amount
                   /\ lastTicketNonce' = nonce
                   /\ maxAcceptedNonce' = IF nonce > maxAcceptedNonce THEN nonce
                                          ELSE maxAcceptedNonce
                   /\ lastAcceptedIdx' = idx
              ELSE UNCHANGED <<wethBalance, wethReceived, totalAmountWithdrawn,
                               lastTicketNonce, maxAcceptedNonce, lastAcceptedIdx>>
        /\ UNCHANGED <<toRailgunAddress, ticketSignerAddress, totalAmountFunded>>

\* claim_ticket that pays without adding to totalAmountWithdrawn.
claim_ticket_uncounted(sender, recipient, amount, nonce, signature) ==
    LET revert == claim_ticket_revert(sender, amount, nonce, signature)
        idx == IssuedIndex(amount, nonce, signature)
    IN  /\ last' = [op |-> "claim_ticket", sender |-> sender,
                    recipient |-> IF revert = "ok" THEN recipient ELSE "none",
                    amount |-> amount, nonce |-> nonce,
                    signature |-> signature, result |-> revert,
                    balanceBefore |-> wethBalance,
                    nonceBefore |-> lastTicketNonce,
                    covered |-> idx - lastAcceptedIdx]
        /\ IF revert = "ok"
              THEN /\ wethBalance' = wethBalance - amount
                   /\ wethReceived' =
                          [wethReceived EXCEPT ![sender] = @ + amount]
                   /\ lastTicketNonce' = nonce
                   /\ maxAcceptedNonce' = IF nonce > maxAcceptedNonce THEN nonce
                                          ELSE maxAcceptedNonce
                   /\ lastAcceptedIdx' = idx
              ELSE UNCHANGED <<wethBalance, wethReceived, lastTicketNonce,
                               maxAcceptedNonce, lastAcceptedIdx>>
        /\ UNCHANGED <<toRailgunAddress, ticketSignerAddress, totalAmountFunded,
                       totalAmountWithdrawn>>

\* One claim_ticket transaction: msg.sender, the arguments, and the railgun
\* address the sender's relay transaction shields the proceeds to once the
\* call has paid msg.sender.
claim_ticket(sender, recipient, amount, nonce, signature) ==
    LET revert == claim_ticket_revert(sender, amount, nonce, signature)
        idx == IssuedIndex(amount, nonce, signature)
        call == [op |-> "claim_ticket", sender |-> sender,
                 recipient |-> IF revert = "ok" THEN recipient ELSE "none",
                 amount |-> amount, nonce |-> nonce,
                 signature |-> signature, result |-> revert,
                 balanceBefore |-> wethBalance,
                 nonceBefore |-> lastTicketNonce,
                 covered |-> idx - lastAcceptedIdx]
    IN  /\ last' = call
        /\ IF revert = "ok"
              THEN /\ wethBalance' = wethBalance - amount
                   /\ wethReceived' =
                          [wethReceived EXCEPT ![sender] = @ + amount]
                   /\ totalAmountWithdrawn' = totalAmountWithdrawn + amount
                   /\ lastTicketNonce' = nonce
                   /\ maxAcceptedNonce' = IF nonce > maxAcceptedNonce THEN nonce
                                          ELSE maxAcceptedNonce
                   /\ lastAcceptedIdx' = idx
              ELSE UNCHANGED <<wethBalance, wethReceived, totalAmountWithdrawn,
                               lastTicketNonce, maxAcceptedNonce, lastAcceptedIdx>>
        /\ UNCHANGED <<toRailgunAddress, ticketSignerAddress, totalAmountFunded>>

\* claim_ticket called by anyone, directly or through the Relay Adapt
\* contract, outside the service.
ExternalClaim(sender, recipient, args) ==
    /\ Ready
    /\ claim_ticket(sender, recipient, args.amount, args.nonce, args.signature)
    /\ UNCHANGED <<serviceVars, issued, requestsSinceSettle, serviceClaimedNonce,
                   restartedAt>>


\* ---------------------------------------------------------- service actions

\* POST /ticket/generate answering without the engine check.
Generate_unguarded ==
    LET claimableTicket == generateTicket(userNonce, hostNonce)
    IN  /\ Ready
        /\ Len(issued) < MaxGenerate
        /\ userNonce' = userNonce + 1
        /\ issued' = Append(issued, claimableTicket)
        /\ requestsSinceSettle' = requestsSinceSettle + 1
        /\ last' = [op |-> "generate", ticket |-> claimableTicket,
                    body |-> resJson(claimableTicket),
                    settled |-> hostNonce, k |-> requestsSinceSettle + 1]
        /\ UNCHANGED <<vaultVars, hostNonce, inflight, engineInitialized,
                       maxAcceptedNonce, lastAcceptedIdx, serviceClaimedNonce,
                       restartedAt>>

\* POST /ticket/generate.
Generate ==
    LET claimableTicket == generateTicket(userNonce, hostNonce)
    IN  /\ Ready
        /\ isEngineInitialized
        /\ Len(issued) < MaxGenerate
        /\ userNonce' = userNonce + 1
        /\ issued' = Append(issued, claimableTicket)
        /\ requestsSinceSettle' = requestsSinceSettle + 1
        /\ last' = [op |-> "generate", ticket |-> claimableTicket,
                    body |-> resJson(claimableTicket),
                    settled |-> hostNonce, k |-> requestsSinceSettle + 1]
        /\ UNCHANGED <<vaultVars, hostNonce, inflight, engineInitialized,
                       maxAcceptedNonce,
                       lastAcceptedIdx, serviceClaimedNonce, restartedAt>>

\* POST /ticket/validate recording an accepted ticket's nonce as settled.
Validate_advances_settled(ticket) ==
    LET result == verifyTicket(ticket, hostNonce)
    IN  /\ Ready
        /\ isEngineInitialized
        /\ last' = [op |-> "validate", ticket |-> ticket, result |-> result]
        /\ hostNonce' = IF result.valid /\ ticket.nonce > hostNonce
                            THEN ticket.nonce ELSE hostNonce
        /\ UNCHANGED <<vaultVars, userNonce, inflight, engineInitialized,
                       issued, maxAcceptedNonce, lastAcceptedIdx,
                       requestsSinceSettle, serviceClaimedNonce, restartedAt>>

\* POST /ticket/validate.
Validate(ticket) ==
    /\ Ready
    /\ isEngineInitialized
    /\ last' = [op |-> "validate", ticket |-> ticket,
                result |-> verifyTicket(ticket, hostNonce)]
    /\ UNCHANGED <<vaultVars, serviceVars, issued, maxAcceptedNonce,
                   lastAcceptedIdx, requestsSinceSettle, serviceClaimedNonce,
                   restartedAt>>

\* POST /ticket/claim calling actions.claim_ticket whatever verifyTicket
\* answered.
ClaimBegin_unchecked(ticket) ==
    LET result == verifyTicket(ticket, hostNonce)
    IN  /\ Ready
        /\ isEngineInitialized
        /\ last' = [op |-> "claim", ticket |-> ticket, result |-> result]
        /\ BagCardinality(inflight) < Cardinality(Handlers)
        /\ inflight' = inflight (+) SetToBag({InFlight("pending", ticket)})
        /\ UNCHANGED <<vaultVars, hostNonce, userNonce, engineInitialized,
                       issued, maxAcceptedNonce, lastAcceptedIdx,
                       requestsSinceSettle, serviceClaimedNonce, restartedAt>>

\* POST /ticket/claim up to its await: verifyTicket, then either the 400
\* answer or the call of actions.claim_ticket, which is left in flight.
ClaimBegin(ticket) ==
    LET result == verifyTicket(ticket, hostNonce)
    IN  /\ Ready
        /\ isEngineInitialized
        /\ last' = [op |-> "claim", ticket |-> ticket, result |-> result]
        /\ IF result.valid
              THEN /\ BagCardinality(inflight) < Cardinality(Handlers)
                   /\ inflight' = inflight (+) SetToBag({InFlight("pending", ticket)})
              ELSE UNCHANGED inflight
        /\ UNCHANGED <<vaultVars, hostNonce, userNonce, engineInitialized,
                       issued, maxAcceptedNonce,
                       lastAcceptedIdx, requestsSinceSettle, serviceClaimedNonce,
                       restartedAt>>

\* actions.claim_ticket: the transaction built from ClaimTicketStep is mined.
\* The Relay Adapt contract is msg.sender of the vault call.
ClaimSettle(r) ==
    LET step == ClaimTicketStep(r.ticket)
        call == step.crossContractCalls[1]
    IN  /\ Ready
        /\ r.stage = "pending"
        /\ claim_ticket(RAILGUN_ADAPT_ADDRESS,
                        step.outputERC20Amounts[1].recipient,
                        call.amount, call.nonce, call.signature)
        /\ inflight' = Moved(r, IF last'.result = "ok" THEN "mined"
                                                       ELSE "reverted")
        /\ UNCHANGED <<hostNonce, userNonce, engineInitialized, issued,
                       requestsSinceSettle,
                       serviceClaimedNonce, restartedAt>>

\* The catch of POST /ticket/claim taking back the tickets issued since the
\* last settlement.
ClaimThrow_rolls_back(r) ==
    /\ Ready
    /\ r.stage = "pending"
    /\ inflight' = inflight (-) SetToBag({r})
    /\ userNonce' = hostNonce
    /\ last' = [op |-> "claim_failed", ticket |-> r.ticket]
    /\ UNCHANGED <<vaultVars, hostNonce, engineInitialized, issued,
                   maxAcceptedNonce, lastAcceptedIdx, requestsSinceSettle,
                   serviceClaimedNonce, restartedAt>>

\* actions.claim_ticket throws before any transaction is sent (gas estimate,
\* proof generation, provider): the handler's catch answers 500.
ClaimThrow(r) ==
    /\ Ready
    /\ r.stage = "pending"
    /\ inflight' = inflight (-) SetToBag({r})
    /\ last' = [op |-> "claim_failed", ticket |-> r.ticket]
    /\ UNCHANGED <<vaultVars, hostNonce, userNonce, engineInitialized, issued,
                   maxAcceptedNonce,
                   lastAcceptedIdx, requestsSinceSettle, serviceClaimedNonce,
                   restartedAt>>

\* POST /ticket/claim sending the same ticket again when its transaction
\* was reverted.
ClaimResume_retries(r) ==
    LET ticket == r.ticket
    IN  \/ /\ Ready
           /\ r.stage = "mined"
           /\ userNonce' = ticket.nonce
           /\ hostNonce' = ticket.nonce
           /\ inflight' = inflight (-) SetToBag({r})
           /\ requestsSinceSettle' = 0
           /\ serviceClaimedNonce' =
                  IF ticket.nonce > serviceClaimedNonce
                      THEN ticket.nonce ELSE serviceClaimedNonce
           /\ last' = [op |-> "claimed", ticket |-> ticket]
           /\ UNCHANGED <<vaultVars, engineInitialized, issued, maxAcceptedNonce,
                          lastAcceptedIdx, restartedAt>>
        \/ /\ Ready
           /\ r.stage = "reverted"
           /\ inflight' = Moved(r, "pending")
           /\ last' = [op |-> "claim_failed", ticket |-> ticket]
           /\ UNCHANGED <<vaultVars, hostNonce, userNonce, engineInitialized,
                          issued, maxAcceptedNonce, lastAcceptedIdx,
                          requestsSinceSettle, serviceClaimedNonce, restartedAt>>

\* POST /ticket/claim setting both counters once the transaction was sent,
\* whether it succeeded or was reverted.
ClaimResume_unawaited(r) ==
    LET ticket == r.ticket
    IN  /\ Ready
        /\ r.stage \in {"mined", "reverted"}
        /\ userNonce' = ticket.nonce
        /\ hostNonce' = ticket.nonce
        /\ inflight' = inflight (-) SetToBag({r})
        /\ requestsSinceSettle' = 0
        /\ serviceClaimedNonce' =
               IF ticket.nonce > serviceClaimedNonce
                   THEN ticket.nonce ELSE serviceClaimedNonce
        /\ last' = [op |-> "claimed", ticket |-> ticket]
        /\ UNCHANGED <<vaultVars, engineInitialized, issued, maxAcceptedNonce,
                       lastAcceptedIdx, restartedAt>>

\* POST /ticket/claim after its await: both counters are set to the claimed
\* nonce when the transaction succeeded, the catch answers 500 when it did not.
ClaimResume(r) ==
    LET ticket == r.ticket
    IN  \/ /\ Ready
           /\ r.stage = "mined"
           /\ userNonce' = ticket.nonce
           /\ hostNonce' = ticket.nonce
           /\ inflight' = inflight (-) SetToBag({r})
           /\ requestsSinceSettle' = 0
           /\ serviceClaimedNonce' =
                  IF ticket.nonce > serviceClaimedNonce
                      THEN ticket.nonce ELSE serviceClaimedNonce
           /\ last' = [op |-> "claimed", ticket |-> ticket]
           /\ UNCHANGED <<vaultVars, engineInitialized, issued, maxAcceptedNonce,
                          lastAcceptedIdx, restartedAt>>
        \/ /\ Ready
           /\ r.stage = "reverted"
           /\ inflight' = inflight (-) SetToBag({r})
           /\ last' = [op |-> "claim_failed", ticket |-> ticket]
           /\ UNCHANGED <<vaultVars, hostNonce, userNonce, engineInitialized,
                          issued, maxAcceptedNonce, lastAcceptedIdx, requestsSinceSettle,
                          serviceClaimedNonce, restartedAt>>

\* A start that takes the settled sequence from the vault and counts the
\* issued tickets from zero.
Restart_issuer_from_zero ==
    /\ Ready
    /\ hostNonce' = lastTicketNonce
    /\ userNonce' = 0
    /\ inflight' = EmptyBag
    /\ engineInitialized' = TRUE
    /\ requestsSinceSettle' = 0
    /\ restartedAt' = Len(issued)
    /\ last' = [op |-> "restart", latestNonce |-> lastTicketNonce]
    /\ UNCHANGED <<vaultVars, issued, maxAcceptedNonce, lastAcceptedIdx,
                   serviceClaimedNonce>>

\* The service process is started again: main reads lastTicketNonce and
\* createRoutes sets both counters to it.  Requests in flight are lost.
Restart ==
    /\ Ready
    /\ hostNonce' = lastTicketNonce
    /\ userNonce' = lastTicketNonce
    /\ inflight' = EmptyBag
    /\ engineInitialized' = TRUE
    /\ requestsSinceSettle' = 0
    /\ restartedAt' = Len(issued)
    /\ last' = [op |-> "restart", latestNonce |-> lastTicketNonce]
    /\ UNCHANGED <<vaultVars, issued, maxAcceptedNonce, lastAcceptedIdx,
                   serviceClaimedNonce>>

\* GET /hidden-payments/available-funds.
AvailableFunds ==
    /\ Ready
    /\ isEngineInitialized
    /\ last' = [op |-> "available_funds",
                totalFunded |-> totalAmountFunded,
                totalWithdrawn |-> totalAmountWithdrawn,
                availableFunds |-> totalAmountFunded - totalAmountWithdrawn]
    /\ UNCHANGED <<vaultVars, serviceVars, issued, maxAcceptedNonce,
                   lastAcceptedIdx, requestsSinceSettle, serviceClaimedNonce,
                   restartedAt>>

\* requireEngineInitialized answers a request to any endpoint with 503
\* before its handler runs.
Unavailable(endpoint) ==
    /\ Ready
    /\ ~isEngineInitialized
    /\ last' = [op |-> "unavailable", endpoint |-> endpoint, status |-> 503]
    /\ UNCHANGED <<vaultVars, serviceVars, issued, maxAcceptedNonce,
                   lastAcceptedIdx, requestsSinceSettle, serviceClaimedNonce,
                   restartedAt>>

\* SIGINT: the handler awaits stop(); the server still answers while the
\* engine shuts down.
EngineStop ==
    /\ Ready
    /\ engineInitialized
    /\ engineInitialized' = FALSE
    /\ last' = [op |-> "engine_stop"]
    /\ UNCHANGED <<vaultVars, hostNonce, userNonce, inflight, issued,
                   maxAcceptedNonce, lastAcceptedIdx, requestsSinceSettle,
                   serviceClaimedNonce, restartedAt>>

\* ----------------------------------------------------------- specification

\* The outcome in `last` is delivered (the HTTP response, the transaction
\* receipt) and the next request or transaction is taken: Node runs one
\* handler at a time up to its next await, the chain one transaction at a time.
Answer ==
    /\ last.op # "idle"
    /\ last' = [op |-> "idle"]
    /\ UNCHANGED <<vaultVars, serviceVars, issued, maxAcceptedNonce,
                   lastAcceptedIdx, requestsSinceSettle, serviceClaimedNonce,
                   restartedAt>>

Next ==
    \/ \E caller \in Senders, amount \in TopUpAmounts : top_up(caller, amount)
    \/ wethTransferToVault(TICKET_COST)
    \/ /\ Ready
       /\ \E sender \in Senders, recipient \in ShieldRecipients,
             args \in ClaimArguments(ClientTickets) :
                 ExternalClaim(sender, recipient, args)
    \/ Generate
    \/ /\ Ready
       /\ \E ticket \in ClientTickets : Validate(ticket)
    \/ /\ Ready
       /\ \E ticket \in ClientTickets : ClaimBegin(ticket)
    \/ \E r \in BagToSet(inflight) : ClaimSettle(r)
    \/ \E r \in BagToSet(inflight) : ClaimThrow(r)
    \/ \E r \in BagToSet(inflight) : ClaimResume(r)
    \/ Restart
    \/ Answer

\* Tickets as handed out, sent in any order by any party, with up to two
\* claim requests in flight.
Spec == Init /\ [][Next]_vars

\* No claim request is in flight.
NoneInFlight == inflight = EmptyBag

NextTampered ==
    \/ \E caller \in Senders, amount \in TopUpAmounts : top_up(caller, amount)
    \/ wethTransferToVault(TICKET_COST)
    \/ /\ Ready
       /\ \E sender \in Senders, recipient \in ShieldRecipients,
             args \in ClaimArguments(RequestTickets) :
                 ExternalClaim(sender, recipient, args)
    \/ Generate
    \/ /\ Ready
       /\ \E ticket \in RequestTickets : Validate(ticket)
    \/ /\ Ready
       /\ NoneInFlight
       /\ \E ticket \in RequestTickets : ClaimBegin(ticket)
    \/ \E r \in BagToSet(inflight) : ClaimSettle(r)
    \/ \E r \in BagToSet(inflight) : ClaimThrow(r)
    \/ \E r \in BagToSet(inflight) : ClaimResume(r)
    \/ Restart
    \/ Answer

\* Altered and forged tickets as well, with the claim requests sent one
\* after the other.
SpecTampered == Init /\ [][NextTampered]_vars

NextAvailability ==
    \/ \E caller \in Senders, amount \in TopUpAmounts : top_up(caller, amount)
    \/ Generate
    \/ AvailableFunds
    \/ /\ Ready
       /\ \E ticket \in ClientTickets : Validate(ticket)
    \/ /\ Ready
       /\ NoneInFlight
       /\ \E ticket \in ClientTickets : ClaimBegin(ticket)
    \/ \E r \in BagToSet(inflight) : ClaimSettle(r)
    \/ \E r \in BagToSet(inflight) : ClaimThrow(r)
    \/ \E r \in BagToSet(inflight) : ClaimResume(r)
    \/ EngineStop
    \/ \E endpoint \in Endpoints : Unavailable(endpoint)
    \/ Restart
    \/ Answer

\* The service with its engine stopping and starting again, the issuer's
\* client the only one to send tickets, one claim request at a time.
SpecAvailability == Init /\ [][NextAvailability]_vars


\* ================================================================== claims

\* An accepted claim_ticket call is the outcome waiting to be delivered.
ClaimAccepted == last.op = "claim_ticket" /\ last.result = "ok"

\* A claim_ticket call was reverted with this reason.
ClaimReverted(reason) == last.op = "claim_ticket" /\ last.result = reason

\* C1: lastTicketNonce never decreases, and a claim_ticket call is accepted
\* only with a nonce above every nonce accepted before it: a replay of an
\* accepted ticket, or any ticket at or below it, is rejected from then on.
C1_VaultSequenceMonotonic ==
    [][/\ lastTicketNonce' >= lastTicketNonce
       /\ ClaimAccepted' => /\ last'.nonce > maxAcceptedNonce
                            /\ last'.nonce > lastTicketNonce
                            /\ lastTicketNonce' = last'.nonce]_vars

\* A validly signed, affordable ticket sent by the relay is rejected because
\* its nonce is the one the vault accepted last.
C1_Witness ==
    /\ ClaimReverted("invalid nonce")
    /\ last.nonce = maxAcceptedNonce
    /\ last.nonce = lastTicketNonce
    /\ last.nonce > 0

\* C2: once a claim of sequence N has succeeded through the service,
\* verifyTicket rejects every ticket with sequence <= N as outdated.
C2_ValidatorRejectsClaimed ==
    \A t \in IssuedTickets :
        (serviceClaimedNonce > 0 /\ t.nonce <= serviceClaimedNonce)
            => verifyTicket(t, hostNonce).error = "ticket is outdated"

\* C3: a generated ticket's sequence is strictly greater than the vault's
\* lastTicketNonce at the time it is generated.
C3_FreshSequenceAboveVault ==
    last.op = "generate" => last.ticket.nonce > lastTicketNonce

\* C4: the k-th ticket generated since the last acceptance, with settled
\* sequence s, has amount k * TICKET_COST and sequence s + k.
C4_CumulativeFormula ==
    last.op = "generate" =>
        /\ last.ticket.amount = last.k * TICKET_COST
        /\ last.ticket.nonce = last.settled + last.k

\* C5: the amount of every ticket the vault accepts is TICKET_COST times the
\* number of requests issued after the previously accepted ticket, up to and
\* including the accepted one.
C5_AcceptedAmountIsCumulative ==
    ClaimAccepted => last.amount = TICKET_COST * last.covered

\* C6: every ticket generate has handed out passes the signature check of
\* verifyTicket and of the vault's verify_signature.
C6_SignatureAgreement ==
    \A t \in IssuedTickets :
        /\ verifyTicket(t, t.nonce).valid
        /\ verify_signature(t.amount, t.nonce, t.signature)
        /\ claim_ticket_revert(RAILGUN_ADAPT_ADDRESS, t.amount, t.nonce,
                               t.signature) # "invalid signature"

\* Several tickets with different cumulative amounts are out, and the vault
\* has accepted one of them from the service.
C6_Witness ==
    /\ Len(issued) = MaxGenerate
    /\ \E t \in IssuedTickets : t.amount > TICKET_COST
    /\ ClaimAccepted
    /\ \E r \in BagToSet(inflight) : r.stage = "mined"

C8_OnlyPayeeReceives ==
    ClaimAccepted => last.recipient = toUtf8String(toRailgunAddress)

\* C9: a claim_ticket call whose sender is not RAILGUN_ADAPT_ADDRESS
\* reverts, whatever its amount, sequence and signature: the call just made,
\* and every call that could be made next.
C9_OnlyAdaptMayClaim ==
    /\ (last.op = "claim_ticket" /\ last.sender # RAILGUN_ADAPT_ADDRESS)
           => last.result # "ok"
    /\ Ready =>
           \A a \in ClaimArguments(RequestTickets),
              sender \in Senders \ {RAILGUN_ADAPT_ADDRESS} :
               claim_ticket_revert(sender, a.amount, a.nonce, a.signature)
                   # "ok"

\* Another sender calls with a validly signed, affordable, fresh ticket and
\* is reverted for being the wrong sender.
C9_Witness ==
    /\ ClaimReverted("only RAILGUN_ADAPT_ADDRESS can claim ticket")
    /\ last.sender = MalloryAddress
    /\ last.amount <= last.balanceBefore
    /\ last.nonce > last.nonceBefore

\* C10: a claim_ticket call for more than the vault holds is rejected for
\* insufficient balance even with a valid signature, sender and sequence;
\* no accepted claim pays more than was held, and the balance stays >= 0.
C10_Affordability ==
    /\ wethBalance >= 0
    /\ ClaimAccepted => last.amount <= last.balanceBefore
    /\ (/\ last.op = "claim_ticket"
        /\ last.sender = RAILGUN_ADAPT_ADDRESS
        /\ verify_signature(last.amount, last.nonce, last.signature)
        /\ last.amount > last.balanceBefore)
           => last.result = "insufficient balance"

\* The relay's call is validly signed and fresh, the vault holds something
\* but less than the amount, and the call reverts.
C10_Witness ==
    /\ ClaimReverted("insufficient balance")
    /\ last.nonce > last.nonceBefore
    /\ last.balanceBefore > 0
    /\ wethBalance = last.balanceBefore

\* A claim_ticket transaction is the step being taken.
ClaimTicketCall == last.op = "idle" /\ last'.op = "claim_ticket"

C12_AcceptedClaimEffect ==
    [][/\ (/\ ClaimTicketCall
           /\ verify_signature(last'.amount, last'.nonce, last'.signature)
           /\ last'.sender = RAILGUN_ADAPT_ADDRESS
           /\ last'.amount <= wethBalance
           /\ last'.nonce > lastTicketNonce)
             => ClaimAccepted'
       /\ (ClaimTicketCall /\ ClaimAccepted')
             => /\ wethBalance' = wethBalance - last'.amount
                /\ wethReceived' =
                       [wethReceived EXCEPT ![last'.sender] = @ + last'.amount]
                /\ totalAmountWithdrawn' = totalAmountWithdrawn + last'.amount
                /\ lastTicketNonce' = last'.nonce
                /\ UNCHANGED <<totalAmountFunded, toRailgunAddress,
                               ticketSignerAddress>>]_vars

\* A second, larger ticket was accepted and the vault still holds WETH.
C12_Witness ==
    /\ ClaimAccepted
    /\ last.amount > TICKET_COST
    /\ wethReceived[last.sender] > last.amount
    /\ wethBalance > 0

\* C13: totalAmountWithdrawn never decreases, and it changes only in a
\* claim_ticket call, by that call's amount, when the call's signature
\* verifies and its nonce is above lastTicketNonce; top_up, a plain transfer
\* and a rejected claim leave it alone.
C13_WithdrawnOnlyByAcceptedClaims ==
    [][/\ totalAmountWithdrawn' >= totalAmountWithdrawn
       /\ totalAmountWithdrawn' # totalAmountWithdrawn
             => /\ ClaimTicketCall
                /\ totalAmountWithdrawn' = totalAmountWithdrawn + last'.amount
                /\ verify_signature(last'.amount, last'.nonce, last'.signature)
                /\ last'.nonce > lastTicketNonce
       /\ (\/ last'.op \in {"top_up", "weth_transfer"}
           \/ (last'.op = "claim_ticket" /\ last'.result # "ok"))
             => UNCHANGED totalAmountWithdrawn]_vars

\* Two claims have been accepted; the total is the sum of what the relay
\* was paid.
C13_Witness ==
    /\ ClaimAccepted
    /\ totalAmountWithdrawn > last.amount
    /\ totalAmountWithdrawn = wethReceived[RAILGUN_ADAPT_ADDRESS]

\* C14: top_up can be called by any caller; it adds exactly amount to
\* totalAmountFunded and to the held balance and leaves totalAmountWithdrawn
\* and lastTicketNonce alone.
C14_TopUpEffect ==
    /\ [](\A caller \in Senders, amount \in TopUpAmounts :
             (/\ Ready
              /\ totalAmountFunded + amount <= MaxFundedUnits * TICKET_COST)
                => ENABLED top_up(caller, amount))
    /\ [][(last.op = "idle" /\ last'.op = "top_up")
             => /\ totalAmountFunded' = totalAmountFunded + last'.amount
                /\ wethBalance' = wethBalance + last'.amount
                /\ UNCHANGED <<totalAmountWithdrawn, lastTicketNonce>>]_vars

\* A caller that is neither the relay nor the signer tops up a vault that
\* has already paid a claim.
C14_Witness ==
    /\ last.op = "top_up"
    /\ last.caller = MalloryAddress
    /\ totalAmountWithdrawn > 0
    /\ lastTicketNonce > 0

\* C15: no ticket generate hands out carries sequence 0, and while the
\* vault's lastTicketNonce is 0 the first ticket generated after the service
\* starts has sequence exactly 1.
C15_SequenceZeroSentinel ==
    /\ \A t \in IssuedTickets : t.nonce >= 1
    /\ last.op = "generate" => last.ticket.nonce # 0
    /\ (last.op = "generate" /\ lastTicketNonce = 0 /\ last.k = 1)
          => last.ticket.nonce = 1

\* The service was started again against a vault that has accepted nothing
\* and generates its first ticket.
C15_Witness ==
    /\ last.op = "generate"
    /\ last.k = 1
    /\ lastTicketNonce = 0
    /\ Len(issued) > 1

\* The last claim_ticket call carried a ticket generate handed out.
ClaimOfIssued ==
    /\ last.op = "claim_ticket"
    /\ IssuedIndex(last.amount, last.nonce, last.signature) > 0

\* C16: from settled sequence 0, the k-th generate call in a row returns
\* sequence k and amount k * TICKET_COST; the service accepts any of these
\* tickets for claiming, and the relay's claim of the k-th against a vault
\* that has accepted nothing and holds at least k * TICKET_COST succeeds,
\* pays k * TICKET_COST in that one call and sets lastTicketNonce to k.
C16_LatestTicketSettlesAll ==
    /\ (last.op = "generate" /\ last.settled = 0)
          => /\ last.ticket.nonce = last.k
             /\ last.ticket.amount = last.k * TICKET_COST
    /\ (/\ last.op = "claim"
        /\ last.ticket \in IssuedTickets
        /\ lastTicketNonce = 0)
          => last.result.valid
    /\ (/\ ClaimOfIssued
        /\ last.sender = RAILGUN_ADAPT_ADDRESS
        /\ last.nonceBefore = 0
        /\ last.balanceBefore >= last.nonce * TICKET_COST)
          => /\ last.result = "ok"
             /\ last.amount = last.nonce * TICKET_COST
             /\ wethBalance = last.balanceBefore - last.nonce * TICKET_COST
             /\ lastTicketNonce = last.nonce

\* Three tickets were generated in a row and the service's claim of the
\* third was mined: 900 paid at once, lastTicketNonce 3.
C16_Witness ==
    /\ ClaimAccepted
    /\ last.nonceBefore = 0
    /\ last.nonce = 3
    /\ last.amount = 3 * TICKET_COST
    /\ lastTicketNonce = 3
    /\ issued[3].nonce = 3
    /\ \E r \in BagToSet(inflight) : r.stage = "mined" /\ r.ticket = issued[3]

\* A validly signed claim_ticket call by the relay, with a sequence at or
\* below the one the vault accepted last.
StaleClaim ==
    /\ last.op = "claim_ticket"
    /\ last.sender = RAILGUN_ADAPT_ADDRESS
    /\ verify_signature(last.amount, last.nonce, last.signature)
    /\ last.nonceBefore > 0
    /\ last.nonce <= last.nonceBefore

\* C17 as stated: once the vault has accepted sequence 3, a later claim with
\* sequence <= 3 fails with "invalid nonce" whatever its amount and whatever
\* the vault holds.
C17_StaleSequenceReason ==
    (StaleClaim /\ last.nonceBefore = 3) => last.result = "invalid nonce"

\* C17: once the vault has accepted a sequence, a later claim with a
\* sequence at or below it is rejected and changes nothing; the reason is
\* "invalid nonce" when the vault holds at least the ticket's amount and
\* "insufficient balance" when it holds less, the balance being checked
\* before the sequence.
C17_StaleSequenceRejected ==
    /\ (/\ last.op = "claim_ticket"
        /\ last.nonceBefore > 0
        /\ last.nonce <= last.nonceBefore)
          => /\ last.result # "ok"
             /\ lastTicketNonce = last.nonceBefore
             /\ wethBalance = last.balanceBefore
    /\ StaleClaim
          => last.result = IF last.amount > last.balanceBefore
                               THEN "insufficient balance"
                               ELSE "invalid nonce"

\* The vault has accepted sequence 3 and still holds WETH; the relay then
\* sends an earlier ticket it could afford, which is rejected for its
\* sequence.
C17_Witness ==
    /\ ClaimReverted("invalid nonce")
    /\ last.sender = RAILGUN_ADAPT_ADDRESS
    /\ last.nonceBefore = 3
    /\ last.nonce < 3
    /\ last.amount <= last.balanceBefore

\* Every way of altering an issued ticket's fields together: payee, vault,
\* amount (one below the cost, between one and two costs), sequence and
\* signature.
Alterations(t) ==
    {[toRailgunAddress |-> p, nonce |-> n, amount |-> a,
      hiddenPaymentChannelsContractAddress |-> v, signature |-> sg] :
        p \in {t.toRailgunAddress, MalloryRailgunAddress},
        n \in {t.nonce} \cup AlterNonce(t.nonce),
        a \in {t.amount, TICKET_COST - 1, TICKET_COST + 50},
        v \in {t.hiddenPaymentChannelsContractAddress, OtherVaultAddress},
        sg \in {t.signature, sign(MalloryAddress, ticketMessageHash(t))}}

\* The checks of a ticket in the order the validator is to report them,
\* each with whether the ticket fails it.
TicketChecks(ticket, hNonce) ==
    <<[error |-> "ticket is required", fails |-> ticket = NoTicket],
      [error |-> "ticket is outdated", fails |-> ticket.nonce < hNonce],
      [error |-> "ticket is not for the host",
       fails |-> ticket.toRailgunAddress # hostRailgunAddress],
      [error |-> "ticket is not for the hidden payments contract",
       fails |-> ticket.hiddenPaymentChannelsContractAddress
                     # hpcContractAddress],
      [error |-> "ticket is not for the correct amount",
       fails |-> ticket.amount < TICKET_COST],
      [error |-> "ticket is not signed by the correct wallet",
       fails |-> recoverAddress(ticketMessageHash(ticket), ticket.signature)
                     # signingWalletAddress]>>

FailedChecks(ticket, hNonce) ==
    LET checks == TicketChecks(ticket, hNonce)
    IN  {i \in DOMAIN checks : checks[i].fails}

\* The error of the first check the ticket fails, "none" when it fails none.
FirstFailure(ticket, hNonce) ==
    LET checks == TicketChecks(ticket, hNonce)
        F == {i \in DOMAIN checks : checks[i].fails}
    IN  IF F = {} THEN "none"
        ELSE checks[CHOOSE i \in F : \A j \in F : i <= j].error

\* C18: verifyTicket reports the first failing check in the order missing,
\* outdated, wrong payee, wrong vault, amount below the cost, bad signature,
\* also for a ticket failing several of them, and accepts a ticket failing
\* none: for every request that could be sent next and for the one just
\* handled.
C18_RejectionOrder ==
    /\ verifyTicket(NoTicket, hostNonce).error = "ticket is required"
    /\ Ready =>
           \A i \in IssuedTickets : \A t \in Alterations(i) :
               LET r == verifyTicket(t, hostNonce)
                   first == FirstFailure(t, hostNonce)
               IN  /\ r.error = first
                   /\ r.valid <=> first = "none"
    /\ last.op \in {"validate", "claim"}
          => /\ last.result.error = FirstFailure(last.ticket, hostNonce)
             /\ last.result.valid <=> FirstFailure(last.ticket, hostNonce) = "none"

\* A ticket that is outdated and whose signature no longer matches is
\* validated and reported as outdated.
C18_Witness ==
    /\ last.op = "validate"
    /\ last.ticket # NoTicket
    /\ Cardinality(FailedChecks(last.ticket, hostNonce)) >= 2
    /\ last.result.error = "ticket is outdated"

\* C19: once verifyTicket has accepted a ticket, validating that same ticket
\* again before any settlement is rejected as outdated.
C19_ReplayRejectedBeforeSettlement ==
    (last.op = "validate" /\ last.result.valid)
        => verifyTicket(last.ticket, hostNonce).error = "ticket is outdated"

\* The checks verifyTicket makes before the amount check all pass.
PassesEarlierChecks(ticket, hNonce) ==
    /\ ticket # NoTicket
    /\ ~(ticket.nonce < hNonce)
    /\ ticket.toRailgunAddress = hostRailgunAddress
    /\ ticket.hiddenPaymentChannelsContractAddress = hpcContractAddress

\* C20: a ticket that passes the earlier checks is rejected by the amount
\* check exactly when its amount is below TICKET_COST: one below the cost
\* fails, the cost plus 50 and every cumulative amount an issued ticket
\* carries pass.
C20_AmountFloor ==
    /\ Ready =>
           \A i \in IssuedTickets : \A t \in Alterations(i) :
               PassesEarlierChecks(t, hostNonce)
                   => (verifyTicket(t, hostNonce).error
                           = "ticket is not for the correct amount"
                       <=> t.amount < TICKET_COST)
    /\ (/\ last.op \in {"validate", "claim"}
        /\ PassesEarlierChecks(last.ticket, hostNonce))
          => (last.result.error = "ticket is not for the correct amount"
              <=> last.ticket.amount < TICKET_COST)
    /\ \A t \in IssuedTickets :
           /\ t.amount >= TICKET_COST
           /\ verifyTicket(t, hostNonce).error
                  # "ticket is not for the correct amount"

\* A ticket for one unit less than the cost is validated and rejected for
\* its amount, while a ticket for twice the cost is out.
C20_Witness ==
    /\ last.op = "validate"
    /\ last.ticket.amount = TICKET_COST - 1
    /\ last.result.error = "ticket is not for the correct amount"
    /\ \E t \in IssuedTickets : t.amount = 2 * TICKET_COST

\* C21: when POST /ticket/claim has seen its settlement of sequence s
\* succeed, userNonce and hostNonce both equal s, and s is the vault's
\* lastTicketNonce.
C21_CachesEqualVaultAfterClaim ==
    last.op = "claimed"
        => /\ userNonce = last.ticket.nonce
           /\ hostNonce = last.ticket.nonce
           /\ lastTicketNonce = last.ticket.nonce

\* A request of POST /ticket/claim is the step being taken, up to its await.
ClaimRequest == last.op = "idle" /\ last'.op = "claim"

\* C22: when POST /ticket/claim rejects the ticket in validation, or its
\* settlement throws or is reverted, userNonce and hostNonce keep their
\* values: the issued count is not rolled back, the settled sequence is not
\* advanced.
C22_FailedClaimKeepsCaches ==
    [][/\ (ClaimRequest /\ ~last'.result.valid)
             => UNCHANGED <<userNonce, hostNonce>>
       /\ (ClaimTicketCall /\ last'.result # "ok")
             => UNCHANGED <<userNonce, hostNonce>>
       /\ (last.op = "idle" /\ last'.op = "claim_failed")
             => UNCHANGED <<userNonce, hostNonce>>]_vars

\* A claim failed while two tickets were issued and not settled.
C22_Witness ==
    /\ last.op = "claim_failed"
    /\ userNonce >= hostNonce + 2

\* The tickets generated since the service was started.
SinceStart == {i \in DOMAIN issued : i > restartedAt}

\* C23: the issuer never hands out two tickets with the same sequence and
\* different amounts, whatever validate and claim requests come in between.
C23_NoDivergentDuplicates ==
    \A i, j \in SinceStart :
        issued[i].nonce = issued[j].nonce => issued[i].amount = issued[j].amount

\* C24: of two tickets generated by the same running issuer, the later has
\* the strictly greater sequence, whatever claims happen in between.
C24_StrictlyIncreasingSequences ==
    \A i, j \in SinceStart : i < j => issued[i].nonce < issued[j].nonce

\* C25: when verifyTicket accepts a ticket while hostNonce equals the
\* vault's lastTicketNonce and the vault holds at least the ticket's amount,
\* claim_ticket for that ticket by the relay succeeds.
C25_ValidatorMirrorsVault ==
    (/\ last.op = "validate"
     /\ last.result.valid
     /\ hostNonce = lastTicketNonce
     /\ last.ticket.amount <= wethBalance)
        => claim_ticket_revert(RAILGUN_ADAPT_ADDRESS, last.ticket.amount,
                               last.ticket.nonce, last.ticket.signature) = "ok"

\* C26: POST /ticket/claim answers with verifyTicket's verdict; it calls the
\* settlement only when the verdict is valid, and attempts no vault claim
\* and changes nothing otherwise; a settlement transaction of the service
\* belongs to a request that passed validation; {result: true} is answered
\* only for a request whose settlement transaction succeeded.
C26_ValidateBeforeSettle ==
    [][/\ ClaimRequest
             => /\ last'.result = verifyTicket(last'.ticket, hostNonce)
                /\ IF last'.result.valid
                      THEN inflight' = inflight
                               (+) SetToBag({InFlight("pending", last'.ticket)})
                      ELSE UNCHANGED <<inflight, vaultVars, hostNonce, userNonce>>
       /\ BagCardinality(inflight') > BagCardinality(inflight)
             => (ClaimRequest /\ last'.result.valid)
       /\ (ClaimTicketCall /\ inflight' # inflight)
             => \E r \in BagToSet(inflight) :
                    /\ r.stage = "pending"
                    /\ r.ticket.amount = last'.amount
                    /\ r.ticket.nonce = last'.nonce
                    /\ r.ticket.signature = last'.signature
       /\ (last.op = "idle" /\ last'.op = "claimed")
             => InFlight("mined", last'.ticket) \in BagToSet(inflight)]_vars

\* A ticket the vault could pay, signed by another key, is sent to POST
\* /ticket/claim: it is answered with the validation reason and nothing is
\* in flight.
C26_Witness ==
    /\ last.op = "claim"
    /\ last.result.error = "ticket is not signed by the correct wallet"
    /\ last.ticket.amount <= wethBalance
    /\ inflight = EmptyBag

\* C27: while the engine is not initialized every endpoint answers 503; no
\* handler runs, so no validation verdict is given, no ticket generated and
\* no claim begun, and the 503 answer changes neither userNonce, hostNonce
\* nor anything else.
C27_UnavailableIsDistinct ==
    /\ []((Ready /\ ~isEngineInitialized)
             => \A endpoint \in Endpoints : ENABLED Unavailable(endpoint))
    /\ [][/\ (last.op = "idle" /\ ~isEngineInitialized)
                => /\ last'.op \notin {"generate", "validate", "claim",
                                       "available_funds"}
                   /\ UNCHANGED issued
                   /\ BagCardinality(inflight') <= BagCardinality(inflight)
          /\ (last.op = "idle" /\ last'.op = "unavailable")
                => /\ ~isEngineInitialized
                   /\ last'.status = 503
                   /\ UNCHANGED <<vaultVars, serviceVars, issued>>]_vars

\* A claim request is answered 503 while tickets are out unsettled.
C27_Witness ==
    /\ last.op = "unavailable"
    /\ last.endpoint = "claim"
    /\ last.status = 503
    /\ userNonce > hostNonce
    /\ totalAmountFunded > 0

\* C28: a generated ticket written to JSON, amount and nonce as base-10
\* digit strings, and read back has the same field values, and verifyTicket
\* gives the request body the verdict it gives the ticket: for every ticket
\* that is out when a request can be sent, and for the one just generated.
C28_WireRoundTrip ==
    /\ Ready =>
           \A t \in IssuedTickets :
               LET body == resJson(t)
                   DigitString(str) ==
                       \A k \in DOMAIN str :
                           \E d \in DOMAIN Digits : str[k] = Digits[d]
               IN  /\ DigitString(body.amount)
                   /\ DigitString(body.nonce)
                   /\ coerced(body) = t
                   /\ verifyTicketBody(body, hostNonce)
                          = verifyTicket(t, hostNonce)
    /\ last.op = "generate"
          => /\ coerced(last.body) = last.ticket
             /\ verifyTicketBody(last.body, hostNonce)
                    = verifyTicket(last.ticket, hostNonce)

\* The third ticket in a row goes out as nonce "3", amount "900".
C28_Witness ==
    /\ last.op = "generate"
    /\ last.body.nonce = <<"3">>
    /\ last.body.amount = <<"9", "0", "0">>
    /\ verifyTicketBody(last.body, hostNonce).valid

\* C29: totalAmountWithdrawn is at most TICKET_COST times the number of
\* tickets the issuer has generated.
C29_NeverOvercharged ==
    totalAmountWithdrawn <= TICKET_COST * Len(issued)

\* C30: userNonce never decreases while the service runs and is never below
\* the sequence of a ticket it has generated; each generate adds exactly 1
\* to it and changes neither hostNonce nor the vault.
C30_IssuedSequenceMonotonic ==
    [][/\ last'.op # "restart" => userNonce' >= userNonce
       /\ (last.op = "idle" /\ last'.op = "generate")
             => /\ userNonce' = userNonce + 1
                /\ UNCHANGED <<hostNonce, vaultVars>>
       /\ last'.op # "restart"
             => \A i \in DOMAIN issued' :
                    i > restartedAt' => userNonce' >= issued'[i].nonce]_vars

\* C31: hostNonce is never above the vault's lastTicketNonce: it is set to
\* a ticket's nonce only when the handler resumes from a claim transaction
\* that succeeded, and to the vault's value when the service starts.
C31_CacheNotAheadOfVault ==
    /\ hostNonce <= lastTicketNonce
    /\ last.op = "claimed" => /\ hostNonce = last.ticket.nonce
                              /\ last.ticket.nonce <= maxAcceptedNonce
    /\ last.op = "restart" => hostNonce = lastTicketNonce

\* A handler resumed from its mined claim after the vault had accepted a
\* later ticket: the cache is behind the vault.
C31_Witness ==
    /\ last.op = "claimed"
    /\ hostNonce >= 1
    /\ hostNonce < lastTicketNonce

\* C32: hostNonce never decreases, also with two claim requests in flight
\* whose handlers resume in another order than the vault accepted their
\* transactions.
C32_SettledSequenceNeverDecreases ==
    [][hostNonce' >= hostNonce]_vars

\* C33: userNonce >= hostNonce always, so unclaimedTickets is never
\* negative and every generated ticket has an amount of at least
\* TICKET_COST.
C33_IssuedNotBelowSettled ==
    /\ userNonce >= hostNonce
    /\ unclaimedTickets(userNonce, hostNonce) >= 0
    /\ generateTicket(userNonce, hostNonce).amount >= TICKET_COST
    /\ last.op = "generate" => last.ticket.amount >= TICKET_COST
    /\ \A i \in DOMAIN issued : issued[i].amount >= TICKET_COST

\* A ticket is generated right after a settlement, with nothing unclaimed:
\* it costs exactly TICKET_COST.
C33_Witness ==
    /\ last.op = "generate"
    /\ hostNonce >= 1
    /\ last.settled = hostNonce
    /\ last.k = 1
    /\ last.ticket.amount = TICKET_COST

\* C34: the ticket generate returns is accepted by verifyTicket in the
\* state right after its generation: its nonce is not below hostNonce, its
\* payee and vault are the host's, its amount is at least TICKET_COST and
\* its signature recovers the signing wallet.
C34_GeneratedTicketValidates ==
    last.op = "generate"
        => /\ verifyTicket(last.ticket, hostNonce)
                  = [valid |-> TRUE, error |-> "none"]
           /\ verifyTicketBody(last.body, hostNonce).valid
           /\ FailedChecks(last.ticket, hostNonce) = {}

\* A ticket generated right after a settlement carries the settled nonce
\* itself: it passes the outdated check only because the check is strict.
C34_Witness ==
    /\ last.op = "generate"
    /\ hostNonce >= 1
    /\ last.ticket.nonce = hostNonce
    /\ verifyTicket(last.ticket, hostNonce).valid

\* C35: a request to POST /ticket/validate, accepted or rejected, changes
\* neither userNonce, hostNonce nor the vault, and its verdict is the one
\* verifyTicket gives the same ticket in the state it leaves behind: the
\* same ticket validated again with no claim in between gets the same
\* answer.
C35_ValidateChangesNothing ==
    [][(last.op = "idle" /\ last'.op = "validate")
          => /\ UNCHANGED <<userNonce, hostNonce, vaultVars, inflight, issued>>
             /\ last'.result = verifyTicket(last'.ticket, hostNonce)
             /\ last'.result = verifyTicket(last'.ticket, hostNonce')
             /\ last'.result.error = FirstFailure(last'.ticket, hostNonce')]_vars

\* A ticket below the settled sequence has been rejected as outdated.
C35_Witness ==
    /\ last.op = "validate"
    /\ ~last.result.valid
    /\ last.result.error = "ticket is outdated"
    /\ hostNonce >= 2

\* C36: claim_ticket reports the first failing check in the order caller,
\* signature, balance, nonce: a caller other than RAILGUN_ADAPT_ADDRESS is
\* told so whatever signature it passes.
C36_VaultCheckOrder ==
    last.op = "claim_ticket"
        => last.result =
               IF last.sender # RAILGUN_ADAPT_ADDRESS
                   THEN "only RAILGUN_ADAPT_ADDRESS can claim ticket"
               ELSE IF ~verify_signature(last.amount, last.nonce, last.signature)
                   THEN "invalid signature"
               ELSE IF ~(last.amount <= last.balanceBefore)
                   THEN "insufficient balance"
               ELSE IF ~(last.nonce > last.nonceBefore)
                   THEN "invalid nonce"
               ELSE "ok"

C38_NoAutomaticRetry ==
    [][/\ (ClaimTicketCall /\ inflight' # inflight)
             => \E r \in BagToSet(inflight) :
                    /\ r.stage = "pending"
                    /\ r.ticket.amount = last'.amount
                    /\ r.ticket.nonce = last'.nonce
                    /\ r.ticket.signature = last'.signature
                    /\ inflight' = Moved(r, IF last'.result = "ok"
                                               THEN "mined" ELSE "reverted")
       /\ (last.op = "idle" /\ last'.op = "claim_failed")
             => /\ \E r \in BagToSet(inflight) :
                       /\ r.ticket = last'.ticket
                       /\ r.stage \in {"pending", "reverted"}
                       /\ inflight' = inflight (-) SetToBag({r})
                /\ UNCHANGED vaultVars
       /\ \A r \in BagToSet(inflight') :
              (r.stage = "pending"
                  /\ CopiesIn(r, inflight') > CopiesIn(r, inflight))
                 => (ClaimRequest /\ last'.result.valid
                        /\ last'.ticket = r.ticket)]_vars

\* The settlement of a ticket the vault cannot pay was reverted and the
\* failure answered: nothing is in flight any more.
C38_Witness ==
    /\ last.op = "claim_failed"
    /\ last.ticket.amount > wethBalance
    /\ lastTicketNonce < last.ticket.nonce
    /\ inflight = EmptyBag

\* C39: for every ticket a claim request can carry, ClaimTicketStep gives
\* exactly one cross-contract call, claim_ticket with the ticket's amount,
\* nonce and signature, no spent tokens, and one output: to the railgun
\* address stored in the vault, whatever payee the ticket names, with
\* expected and minimum balance both floor(amount * 9975 / 10000), which
\* is at most the amount.
C39_ClaimStepOutput ==
    Ready =>
        \A t \in RequestTickets \ {NoTicket} :
            LET step == ClaimTicketStep(t)
                out == step.outputERC20Amounts[1]
            IN  /\ Len(step.crossContractCalls) = 1
                /\ step.crossContractCalls[1]
                       = [amount |-> t.amount, nonce |-> t.nonce,
                          signature |-> t.signature]
                /\ Len(step.spentERC20Amounts) = 0
                /\ Len(step.outputERC20Amounts) = 1
                /\ toUtf8Bytes(out.recipient) = toRailgunAddress
                /\ out.recipient = hostRailgunAddress
                /\ out.minBalance = out.expectedBalance
                /\ 10000 * out.expectedBalance <= 9975 * t.amount
                /\ 9975 * t.amount < 10000 * (out.expectedBalance + 1)
                /\ out.expectedBalance <= t.amount

\* A ticket naming another payee is out with an amount the fee rounds:
\* 9975 * 299 / 10000 is 298.2525, shielded as 298.
C39_Witness ==
    /\ Ready
    /\ \E t \in RequestTickets :
           /\ t.toRailgunAddress = MalloryRailgunAddress
           /\ ClaimTicketStep(t).outputERC20Amounts[1].recipient
                  = hostRailgunAddress
    /\ \E t \in RequestTickets :
           /\ t.amount = TICKET_COST - 1
           /\ ClaimTicketStep(t).outputERC20Amounts[1].expectedBalance
                  = TICKET_COST - 2

=============================================================================
